---------------------------- MODULE Spec2Model ----------------------------
(***************************************************************************)
(* Model of su27/stats_on_video: video_processor.py (VideoProcessor) and   *)
(* app.py (the Flask task map and its background thread).                  *)
(*                                                                         *)
(* Python values are held as follows.                                      *)
(*   None            the empty tuple <<>>; a present value v is <<v>>      *)
(*   float           a binary64 number [sgn, hi, lo, e] of value           *)
(*                   sgn * (hi * 2^27 + lo) * 2^e with a 53-bit            *)
(*                   significand split in two limbs (TLC's integers are    *)
(*                   32 bits wide)                                         *)
(*   str (pace)      the sequence of its characters                        *)
(*   degrees         the numerator raw * 180 of raw * 180 / 2^31           *)
(***************************************************************************)
EXTENDS Integers, Sequences, FiniteSets, TLC

\* one VideoProcessor on which the methods are tried one by one
VARIABLES records, gps_coords, bbox, result
\* the server: the task map of app.py, its background threads, the
\* processors they run and the overlay_frames directory they share
VARIABLES tasks, pc, cb, self, loc, fut, yielded, calls, fs, muxed, ret

fvars == <<records, gps_coords, bbox, result>>
pvars == <<tasks, pc, cb, self, loc, fut, yielded, calls, fs, muxed, ret>>
vars == <<fvars, pvars>>

(***************************************************************************)
(* Bounds of the model.                                                    *)
(***************************************************************************)
\* paces of MinPaceSeconds .. MaxPaceSeconds seconds per kilometre are tried
\* as speed = 1000 / seconds
MinPaceSeconds == 180
MaxPaceSeconds == 250
\* offsets 0, 0.5, 1, ... MaxOffsetHalves / 2 seconds are looked up
MaxOffsetHalves == 11
\* GPS record sequences of length 1 .. MaxTrailLen
MaxTrailLen == 2
\* a video has 0 .. MaxFrames frames
MaxFrames == 3
\* the request's offset is 0 .. MaxOffset seconds
MaxOffset == 1
\* the video has 1 .. MaxFps frames per second
MaxFps == 2
\* two jobs at once: each video has 1 .. MaxSharedFrames frames
MaxSharedFrames == 2
\* a long video has MinLongFrames .. MaxLongFrames frames
MinLongFrames == 698
MaxLongFrames == 700

None == <<>>
Some(v) == <<v>>
IsNone(x) == x = <<>>
Val(x) == x[1]

Max(a, b) == IF a >= b THEN a ELSE b
Min(a, b) == IF a <= b THEN a ELSE b
SetMax(S) == CHOOSE x \in S : \A y \in S : y <= x
SetMin(S) == CHOOSE x \in S : \A y \in S : x <= y

(***************************************************************************)
(* binary64 arithmetic: Python's float, for the operations the code        *)
(* applies to speed and to the frame count (true division, product with    *)
(* 70, floor division and modulo by 60, int()).  Round to nearest, ties    *)
(* to even.  Exponents stay far from the subnormal and overflow ranges     *)
(* for the values used.                                                    *)
(***************************************************************************)
Limb == 2^27
HiOne == 2^25

FloatZero == [sgn |-> 0, hi |-> 0, lo |-> 0, e |-> 0]

Log2(n) == CHOOSE k \in 0..25 : 2^k <= n /\ n < 2^(k+1)

\* float(n) for an integer 0 <= n < 2^26
IntToFloat(n) ==
  IF n = 0 THEN FloatZero
  ELSE [sgn |-> 1, hi |-> n * 2^(25 - Log2(n)), lo |-> 0, e |-> Log2(n) - 52]

LimbGe(a, b) == a[1] > b[1] \/ (a[1] = b[1] /\ a[2] >= b[2])
LimbSub(a, b) ==
  IF a[2] >= b[2] THEN <<a[1] - b[1], a[2] - b[2]>>
  ELSE <<a[1] - b[1] - 1, a[2] - b[2] + Limb>>
LimbDbl(a) == <<2 * a[1] + (2 * a[2]) \div Limb, (2 * a[2]) % Limb>>
LimbInc(a) == IF a[2] = Limb - 1 THEN <<a[1] + 1, 0>> ELSE <<a[1], a[2] + 1>>

\* one more quotient bit of the long division: st = <<remainder, quotient>>
DivStep(st, my) ==
  LET R2 == LimbDbl(st[1])
  IN IF LimbGe(R2, my)
     THEN <<LimbSub(R2, my), LimbInc(LimbDbl(st[2]))>>
     ELSE <<R2, LimbDbl(st[2])>>

\* n more quotient bits.  The remainder stays below the divisor; testing it
\* also makes each step be evaluated before the next one starts.
RECURSIVE DivBits(_, _, _)
DivBits(st, my, n) ==
  IF n = 0 THEN st
  ELSE LET s2 == DivStep(st, my)
       IN IF LimbGe(my, s2[1]) THEN DivBits(s2, my, n - 1) ELSE s2

\* x / y for floats x >= 0, y > 0, correctly rounded
FloatDiv(x, y) ==
  IF x.sgn = 0 THEN FloatZero
  ELSE
    LET mx == <<x.hi, x.lo>>
        my == <<y.hi, y.lo>>
        big == LimbGe(mx, my)
        R0 == IF big THEN LimbSub(mx, my) ELSE LimbSub(LimbDbl(mx), my)
        e0 == IF big THEN x.e - y.e - 52 ELSE x.e - y.e - 53
        rq == DivBits(<<R0, <<0, 1>>>>, my, 52)
        Q == rq[2]
        R2 == LimbDbl(rq[1])
        up == IF R2 = my THEN Q[2] % 2 = 1 ELSE LimbGe(R2, my)
        Qr == IF up THEN LimbInc(Q) ELSE Q
    IN IF Qr[1] = 2 * HiOne
       THEN [sgn |-> x.sgn * y.sgn, hi |-> HiOne, lo |-> 0, e |-> e0 + 1]
       ELSE [sgn |-> x.sgn * y.sgn, hi |-> Qr[1], lo |-> Qr[2], e |-> e0]

\* a * k for a limb 0 <= a < 2^27 and 1 <= k < 2^7, as <<carry, limb>>
LimbMul(a, k) ==
  LET low == (a % 2^14) * k
      u == (a \div 2^14) * k + (low \div 2^14)
  IN <<u \div 2^13, (u % 2^13) * 2^14 + (low % 2^14)>>

\* x * float(k) for a float x >= 0 and an integer 1 <= k < 2^7, correctly
\* rounded: the exact product <<top, mid, low>> has 53 + s bits, of which
\* the s lowest are rounded away
FloatMulInt(x, k) ==
  IF x.sgn = 0 THEN FloatZero
  ELSE
    LET ph == LimbMul(x.hi, k)
        pl == LimbMul(x.lo, k)
        low == pl[2]
        mid == (ph[2] + pl[1]) % Limb
        top == ph[1] + ((ph[2] + pl[1]) \div Limb)
        s == IF top > 0 THEN Log2(top) + 2 ELSE IF mid >= 2 * HiOne THEN 1 ELSE 0
        M == <<top * 2^(27 - s) + (mid \div 2^s),
               (mid % 2^s) * 2^(27 - s) + (low \div 2^s)>>
        rem == low % 2^s
        up == s > 0 /\ (rem > 2^(s - 1) \/ (rem = 2^(s - 1) /\ M[2] % 2 = 1))
        Mr == IF up THEN LimbInc(M) ELSE M
    IN IF Mr[1] = 2 * HiOne
       THEN [sgn |-> x.sgn, hi |-> HiOne, lo |-> 0, e |-> x.e + s + 1]
       ELSE [sgn |-> x.sgn, hi |-> Mr[1], lo |-> Mr[2], e |-> x.e + s]

\* int(x) for a float 0 <= x < 2^31 (also floor(x))
FloatToInt(x) ==
  IF x.sgn = 0 THEN 0
  ELSE LET s == 0 - x.e
       IN IF s >= 54 THEN 0
          ELSE IF s >= 27 THEN x.hi \div 2^(s - 27)
          ELSE (x.hi * 2^(27 - s)) + (x.lo \div 2^s)

(***************************************************************************)
(* str.format: decimal digits, and the ":02d" field.                       *)
(***************************************************************************)
DigitChar(d) == <<"0", "1", "2", "3", "4", "5", "6", "7", "8", "9">>[d + 1]

RECURSIVE Digits(_)
Digits(n) == IF n < 10 THEN <<DigitChar(n)>>
             ELSE Append(Digits(n \div 10), DigitChar(n % 10))

\* f"{n:02d}" for n >= 0: at least two digits, padded with zeros
Format02d(n) == IF n < 10 THEN <<"0">> \o Digits(n) ELSE Digits(n)

(***************************************************************************)
(* Records of the FIT file, as fitparse hands them over: get_value(name)   *)
(* is None for a field the record does not carry.                          *)
(***************************************************************************)
NoFields ==
  [heart_rate |-> None, enhanced_speed |-> None, speed |-> None,
   cadence |-> None, distance |-> None, power |-> None,
   position_lat |-> None, position_long |-> None]

\* Python truth of an optional number: None and zero are false
TruthyInt(x) == ~IsNone(x) /\ Val(x) # 0
TruthyFloat(x) == ~IsNone(x) /\ Val(x).sgn # 0

\* x or 0, for an optional integer
OrZero(x) == IF TruthyInt(x) THEN Val(x) ELSE 0

\* record.get_value('enhanced_speed') or record.get_value('speed') or 0
SpeedOf(record) ==
  IF TruthyFloat(record.enhanced_speed) THEN Val(record.enhanced_speed)
  ELSE IF TruthyFloat(record.speed) THEN Val(record.speed)
  ELSE FloatZero

\* the pace string of lines 188-194.  pace_seconds // 60 and
\* pace_seconds % 60 are exact on floats: their integer parts are those of
\* floor(pace_seconds).
NoPace == <<"-", "-", ":", "-", "-">>
PaceStr(speed) ==
  IF speed.sgn > 0
  THEN LET pace_seconds == FloatDiv(IntToFloat(1000), speed)
           pace_min == FloatToInt(pace_seconds) \div 60
           pace_sec == FloatToInt(pace_seconds) % 60
       IN Digits(pace_min) \o <<":">> \o Format02d(pace_sec)
  ELSE NoPace

\* int(offset_seconds) for offset_seconds = num / den >= 0
IntOfRatio(num, den) == num \div den

\* min(int(offset_seconds), len(self.records) - 1)
LookupIndex(recs, num, den) == Min(IntOfRatio(num, den), Len(recs) - 1)

\* what get_data_at_offset returns, or the exception it raises.  A Python
\* list of length n takes the indices -n .. n-1; idx here is the 0-based
\* index of the code.
NoData ==
  [exc |-> "IndexError", hr |-> 0, pace |-> NoPace, cadence |-> 0,
   distance |-> <<0, 1000>>, power |-> 0, current_idx |-> 0]
DataOf(record, idx) ==
  [exc |-> "none",
   hr |-> OrZero(record.heart_rate),
   pace |-> PaceStr(SpeedOf(record)),
   cadence |-> IF TruthyInt(record.cadence) THEN Val(record.cadence) * 2 ELSE 0,
   distance |-> <<OrZero(record.distance), 1000>>,
   power |-> OrZero(record.power),
   current_idx |-> idx]
get_data_at_offset(recs, num, den) ==
  LET idx == LookupIndex(recs, num, den)
  IN IF idx >= Len(recs) \/ idx < 0 - Len(recs) THEN NoData
     ELSE IF idx >= 0 THEN DataOf(recs[idx + 1], idx)
     ELSE DataOf(recs[Len(recs) + idx + 1], idx)

(***************************************************************************)
(* _extract_gps_data (lines 205-232).  A coordinate is the pair            *)
(* <<lat, lon>> of degree numerators; a slot without one is None.          *)
(***************************************************************************)
\* lat * (180 / 2**31), as the numerator over 2^31
SemicirclesToDegrees(raw) == raw * 180

\* lines 209-217: the slot of one record
SlotOf(record) ==
  IF TruthyInt(record.position_lat) /\ TruthyInt(record.position_long)
  THEN <<SemicirclesToDegrees(Val(record.position_lat)),
         SemicirclesToDegrees(Val(record.position_long))>>
  ELSE None

\* lines 207-217: one slot per record, in order
AllSlotsFixesOnly(recs) == SelectSeq([i \in 1..Len(recs) |-> SlotOf(recs[i])],
                                     LAMBDA c : c # None)
AllSlots(recs) == [i \in 1..Len(recs) |-> SlotOf(recs[i])]

\* the attributes lat_min .. coord_range; unset until a fix is seen
NoBox ==
  [set |-> FALSE, lat_min |-> 0, lat_max |-> 0, lon_min |-> 0, lon_max |-> 0,
   coord_range |-> 0]

\* lines 220-230
BoxOf(valid_coords) ==
  LET lats == {valid_coords[i][1] : i \in 1..Len(valid_coords)}
      lons == {valid_coords[i][2] : i \in 1..Len(valid_coords)}
  IN [set |-> TRUE,
      lat_min |-> SetMin(lats), lat_max |-> SetMax(lats),
      lon_min |-> SetMin(lons), lon_max |-> SetMax(lons),
      coord_range |-> Max(SetMax(lats) - SetMin(lats), SetMax(lons) - SetMin(lons))]

\* the whole method: the new <<gps_coords, box>>, given the box so far
extract_gps_data(recs, box) ==
  LET coords == AllSlots(recs)
      valid_coords == SelectSeq(coords, LAMBDA c : c # None)
  IN IF valid_coords # <<>> THEN <<coords, BoxOf(valid_coords)>>
     ELSE <<<<>>, box>>

(***************************************************************************)
(* _gps_to_pixel, global mode (lines 242-248).  The quotient is taken      *)
(* exactly; int() truncates toward zero.  The floats of the code agree     *)
(* with it at the ends of an axis (0 / r = 0.0 and r / r = 1.0 are exact)  *)
(* and, rounding being monotonic, stay between those values elsewhere.     *)
(***************************************************************************)
\* int(p / q) for q > 0
TruncDiv(p, q) == IF p >= 0 THEN p \div q ELSE 0 - ((0 - p) \div q)

\* int(d / coord_range * (map_size - 20) + 10)
ScaleNoMargin(d, coord_range, map_size) ==
  TruncDiv(d * (map_size - 20), coord_range)
Scale(d, coord_range, map_size) ==
  TruncDiv(d * (map_size - 20) + 10 * coord_range, coord_range)

gps_to_pixel(box, lat, lon, map_size) ==
  IF box.coord_range = 0 THEN <<map_size \div 2, map_size \div 2>>
  ELSE <<Scale(lon - box.lon_min, box.coord_range, map_size),
         Scale(box.lat_max - lat, box.coord_range, map_size)>>

(***************************************************************************)
(* The inputs tried.                                                       *)
(***************************************************************************)
\* the float 1000 / T of each pace of T seconds per kilometre
SpeedOfPace ==
  [T \in MinPaceSeconds..MaxPaceSeconds |-> FloatDiv(IntToFloat(1000), IntToFloat(T))]

\* one record running at T seconds per kilometre
PaceRecord(T) ==
  IF T % 2 = 0
  THEN [NoFields EXCEPT !.speed = Some(SpeedOfPace[T]),
                        !.heart_rate = Some(100 + (T % 3))]
  ELSE [NoFields EXCEPT !.enhanced_speed = Some(SpeedOfPace[T]),
                        !.speed = Some(FloatZero),
                        !.cadence = Some(80 + (T % 3))]

\* the five samples with speed 0, 2, 4, 0, 5 m/s
ScenarioSpeeds == <<0, 2, 4, 0, 5>>
Scenario ==
  [i \in 1..5 |->
     [NoFields EXCEPT !.speed = Some(IntToFloat(ScenarioSpeeds[i])),
                      !.heart_rate = Some(120 + i),
                      !.distance = Some(i * 250),
                      !.power = Some(i)]]

\* raw semicircle values of a record, or None for a missing field
RawLats == {None, Some(0), Some(1), Some(3)}
RawLons == {None, Some(0), Some(1), Some(2)}
GpsRecords ==
  {[NoFields EXCEPT !.position_lat = lat, !.position_long = lon] :
     lat \in RawLats, lon \in RawLons}

RECURSIVE SeqsUpTo(_, _)
SeqsUpTo(S, n) ==
  IF n = 0 THEN {<<>>}
  ELSE LET shorter == SeqsUpTo(S, n - 1)
       IN shorter \cup {Append(q, x) : q \in shorter, x \in S}

SpeedRecordSeqs ==
  {<<PaceRecord(T)>> : T \in MinPaceSeconds..MaxPaceSeconds}
    \cup {<<>>, Scenario, <<NoFields>>}

GpsRecordSeqs == SeqsUpTo(GpsRecords, MaxTrailLen)

\* canvas sides tried for the route map: int(min(width, height) * 0.5)
MapSizes == {16, 101, 540}

(***************************************************************************)
(* The server.  A job j is one POST /api/process: its entry of the task    *)
(* map, its background thread (process_task), the VideoProcessor the       *)
(* thread builds and the frame tasks of its thread pool.  pc[j] is the     *)
(* line of the source the thread is about to run.                          *)
(***************************************************************************)
AllJobs == {1, 2}
OneJob == {1}

\* line 94 of video_processor.py: a report every 10 completed frames
ReportEvery == 10
\* line 79: at most 8 worker threads
MaxWorkers == 8
\* multiprocessing.cpu_count() of the machines tried
CpuCounts == {1, 16}

\* the record sequences a FIT file of a job may hold
JobRecordSeqs ==
  {<<>>, Scenario,
   <<[NoFields EXCEPT !.position_lat = Some(1), !.position_long = Some(3)],
     [NoFields EXCEPT !.heart_rate = Some(90)]>>}

NoCall == [percent |-> 0, message |-> <<>>, ret |-> "idle"]
NoSelf == [offset_seconds |-> 0, records |-> <<>>, gps_coords |-> <<>>, box |-> NoBox]
NoLocals ==
  [fps |-> 1, total_frames |-> 0, max_workers |-> 1, completed_frames |-> 0,
   exc |-> "none"]
NoFiles == [n \in {} |-> 0]

ServerInit ==
  /\ tasks = [j \in {} |-> 0]
  /\ pc = [j \in AllJobs |-> "idle"]
  /\ cb = [j \in AllJobs |-> NoCall]
  /\ self = [j \in AllJobs |-> NoSelf]
  /\ loc = [j \in AllJobs |-> NoLocals]
  /\ fut = [j \in AllJobs |-> NoFiles]
  /\ yielded = [j \in AllJobs |-> {}]
  /\ calls = [j \in AllJobs |-> <<>>]
  /\ fs \in {[dir |-> d, files |-> NoFiles] : d \in BOOLEAN}
  /\ muxed = [j \in AllJobs |-> None]
  /\ ret = [j \in AllJobs |-> None]

Goto(j, line) == pc' = [pc EXCEPT ![j] = line]

\* self._update_progress(percent, message) (lines 448-451), returning to
\* `line`: the callback of app.py runs next
UpdateProgress(j, percent, message, line) ==
  /\ cb' = [cb EXCEPT ![j] = [percent |-> percent, message |-> message, ret |-> line]]
  /\ Goto(j, "cb_progress")

\* an exception e leaves the try block of process(): line 152 runs next
Raise(j, e) ==
  /\ loc' = [loc EXCEPT ![j].exc = e]
  /\ Goto(j, "L152")

(***************************************************************************)
(* app.py                                                                  *)
(***************************************************************************)
\* process_video, lines 67-98: a valid request creates the task and starts
\* its thread (an invalid one returns 400 and changes nothing)
process_video(j) ==
  /\ pc[j] = "idle"
  /\ j \notin DOMAIN tasks
  /\ \E offset \in 0..MaxOffset :
       self' = [self EXCEPT ![j].offset_seconds = offset]
  /\ tasks' = (j :> [status |-> "pending", progress |-> 0,
                     message |-> <<"waiting">>, output_file |-> None]) @@ tasks
  /\ Goto(j, "L89")
  /\ UNCHANGED <<fvars, cb, loc, fut, yielded, calls, fs, muxed, ret>>

\* line 89, and __init__ (lines 28-52): _detect_gpu_encoder runs ffmpeg,
\* which raises FileNotFoundError where ffmpeg is not installed
Construct(j) ==
  /\ pc[j] = "L89"
  /\ \/ /\ Goto(j, "L58")
        /\ UNCHANGED loc
     \/ /\ loc' = [loc EXCEPT ![j].exc = "FileNotFoundError"]
        /\ Goto(j, "L93")
  /\ UNCHANGED <<fvars, tasks, cb, self, fut, yielded, calls, fs, muxed, ret>>

\* update_progress, line 79
CallbackProgress(j) ==
  /\ pc[j] = "cb_progress"
  /\ tasks' = [tasks EXCEPT ![j].progress = cb[j].percent]
  /\ calls' = [calls EXCEPT ![j] = Append(@, cb[j].percent)]
  /\ Goto(j, "cb_message")
  /\ UNCHANGED <<fvars, cb, self, loc, fut, yielded, fs, muxed, ret>>

\* update_progress, line 80
CallbackMessage(j) ==
  /\ pc[j] = "cb_message"
  /\ tasks' = [tasks EXCEPT ![j].message = cb[j].message]
  /\ Goto(j, "cb_status")
  /\ UNCHANGED <<fvars, cb, self, loc, fut, yielded, calls, fs, muxed, ret>>

\* update_progress, lines 81-86
StatusOfErrorAtZero(percent) ==
  IF percent <= 0 THEN "error"
  ELSE IF percent >= 100 THEN "completed"
  ELSE "processing"
StatusOf(percent) ==
  IF percent < 0 THEN "error"
  ELSE IF percent >= 100 THEN "completed"
  ELSE "processing"

CallbackStatus(j) ==
  /\ pc[j] = "cb_status"
  /\ tasks' = [tasks EXCEPT ![j].status = StatusOf(cb[j].percent)]
  /\ Goto(j, cb[j].ret)
  /\ UNCHANGED <<fvars, cb, self, loc, fut, yielded, calls, fs, muxed, ret>>

\* line 91: process() has returned
StoreOutput(j) ==
  /\ pc[j] = "L91"
  /\ tasks' = [tasks EXCEPT ![j].output_file = ret[j]]
  /\ Goto(j, "finished")
  /\ UNCHANGED <<fvars, cb, self, loc, fut, yielded, calls, fs, muxed, ret>>

\* line 93: the thread caught an exception
ExceptStatus(j) ==
  /\ pc[j] = "L93"
  /\ tasks' = [tasks EXCEPT ![j].status = "error"]
  /\ Goto(j, "L94")
  /\ UNCHANGED <<fvars, cb, self, loc, fut, yielded, calls, fs, muxed, ret>>

\* line 94
ExceptMessage(j) ==
  /\ pc[j] = "L94"
  /\ tasks' = [tasks EXCEPT ![j].message = <<loc[j].exc>>]
  /\ Goto(j, "finished")
  /\ UNCHANGED <<fvars, cb, self, loc, fut, yielded, calls, fs, muxed, ret>>

(***************************************************************************)
(* VideoProcessor.process (lines 54-153)                                   *)
(***************************************************************************)
\* line 58
ReportParse(j) ==
  /\ pc[j] = "L58"
  /\ UpdateProgress(j, 0, <<"parse">>, "L59")
  /\ UNCHANGED <<fvars, tasks, self, loc, fut, yielded, calls, fs, muxed, ret>>

\* lines 59-63: FitFile raises on a file that is no FIT file; otherwise the
\* records are loaded and _extract_gps_data runs
LoadRecords(j) ==
  /\ pc[j] = "L59"
  /\ \/ /\ Raise(j, "FitParseError")
        /\ UNCHANGED self
     \/ /\ \E recs \in JobRecordSeqs :
             LET g == extract_gps_data(recs, self[j].box)
             IN self' = [self EXCEPT ![j].records = recs,
                                     ![j].gps_coords = g[1],
                                     ![j].box = g[2]]
        /\ Goto(j, "L66")
        /\ UNCHANGED loc
  /\ UNCHANGED <<fvars, tasks, cb, fut, yielded, calls, fs, muxed, ret>>

\* line 66
ReportVideoInfo(j) ==
  /\ pc[j] = "L66"
  /\ UpdateProgress(j, 5, <<"video_info">>, "L67")
  /\ UNCHANGED <<fvars, tasks, self, loc, fut, yielded, calls, fs, muxed, ret>>

\* lines 67-68: _get_video_info raises when ffprobe prints no JSON (the file
\* is no video); otherwise fps and total_frames = int(duration * fps)
GetVideoInfo(j) ==
  /\ pc[j] = "L67"
  /\ \/ Raise(j, "JSONDecodeError")
     \/ /\ \E fps \in 1..MaxFps, total_frames \in 0..MaxFrames :
             loc' = [loc EXCEPT ![j].fps = fps, ![j].total_frames = total_frames]
        /\ Goto(j, "L71")
  /\ UNCHANGED <<fvars, tasks, cb, self, fut, yielded, calls, fs, muxed, ret>>

\* line 71
ReportOverlay(j) ==
  /\ pc[j] = "L71"
  /\ UpdateProgress(j, 10, <<"overlay">>, "L73")
  /\ UNCHANGED <<fvars, tasks, self, loc, fut, yielded, calls, fs, muxed, ret>>

\* lines 72-79: os.makedirs(overlay_dir, exist_ok=True) and the locals
MakeOverlayDir(j) ==
  /\ pc[j] = "L73"
  /\ fs' = [fs EXCEPT !.dir = TRUE]
  /\ \E cpu_count \in CpuCounts :
       loc' = [loc EXCEPT ![j].completed_frames = 0,
                          ![j].max_workers = Min(cpu_count, MaxWorkers)]
  /\ Goto(j, "L90")
  /\ UNCHANGED <<fvars, tasks, cb, self, fut, yielded, calls, muxed, ret>>

\* line 90: one future per frame, queued in the order of submission
SubmitFrames(j) ==
  /\ pc[j] = "L90"
  /\ fut' = [fut EXCEPT ![j] = [n \in 0..(loc[j].total_frames - 1) |-> "queued"]]
  /\ yielded' = [yielded EXCEPT ![j] = {}]
  /\ Goto(j, "L92")
  /\ UNCHANGED <<fvars, tasks, cb, self, loc, calls, fs, muxed, ret>>

FramesIn(j, state) == {n \in DOMAIN fut[j] : fut[j][n] = state}

\* a worker thread of the pool takes the next queued task
StartFrame(j, n) ==
  /\ n \in FramesIn(j, "queued")
  /\ \A m \in FramesIn(j, "queued") : n <= m
  /\ Cardinality(FramesIn(j, "running")) < loc[j].max_workers
  /\ fut' = [fut EXCEPT ![j][n] = "running"]
  /\ UNCHANGED <<fvars, tasks, pc, cb, self, loc, yielded, calls, fs, muxed, ret>>

\* _create_overlay (lines 382-446): the raster is drawn from the data, and
\* the two maps are drawn when self.gps_coords is not empty
create_overlay(processor, data) ==
  [panel |-> data, maps |-> processor.gps_coords # <<>>]

\* lines 82-85 for frame_num = n: activity_time = offset_seconds + n / fps
FrameData(processor, fps, n) ==
  get_data_at_offset(processor.records, processor.offset_seconds * fps + n, fps)

\* generate_frame (lines 81-87): an exception stays in the future; the file
\* is written into overlay_frames, which must exist
generate_frame(j, n) ==
  /\ n \in FramesIn(j, "running")
  /\ LET data == FrameData(self[j], loc[j].fps, n)
     IN IF data.exc # "none" \/ ~fs.dir
        THEN /\ fut' = [fut EXCEPT ![j][n] = "raised"]
             /\ UNCHANGED fs
        ELSE /\ fut' = [fut EXCEPT ![j][n] = "done"]
             /\ fs' = [fs EXCEPT !.files =
                         (n :> [job |-> j, overlay |-> create_overlay(self[j], data)]) @@ @]
  /\ UNCHANGED <<fvars, tasks, pc, cb, self, loc, yielded, calls, muxed, ret>>

\* line 95: 10 + int(completed_frames / total_frames * 70)
FrameProgressTo100(completed_frames, total_frames) ==
  10 + (completed_frames * 90) \div total_frames
FrameProgress(completed_frames, total_frames) ==
  10 + FloatToInt(FloatMulInt(FloatDiv(IntToFloat(completed_frames),
                                       IntToFloat(total_frames)), 70))

\* lines 92-101: as_completed hands over a finished future, whether it
\* holds a result or an exception; nothing reads future.result().
\* CountCompleted is the body of the loop (lines 93-101).
CountCompleted(j) ==
  LET completed_frames == loc[j].completed_frames + 1
      total_frames == loc[j].total_frames
  IN /\ loc' = [loc EXCEPT ![j].completed_frames = completed_frames]
     /\ IF completed_frames % ReportEvery = 0 \/ completed_frames = total_frames
        THEN UpdateProgress(j, FrameProgress(completed_frames, total_frames),
                            <<"frames", completed_frames, total_frames>>, "L92")
        ELSE UNCHANGED <<pc, cb>>
NextCompleted(j) ==
  /\ pc[j] = "L92"
  /\ \E n \in (FramesIn(j, "done") \cup FramesIn(j, "raised")) \ yielded[j] :
       yielded' = [yielded EXCEPT ![j] = @ \cup {n}]
  /\ CountCompleted(j)
  /\ UNCHANGED <<fvars, tasks, self, fut, calls, fs, muxed, ret>>

\* the loop ends when every future was handed over; line 105
ReportMux(j) ==
  /\ pc[j] = "L92"
  /\ yielded[j] = DOMAIN fut[j]
  /\ UpdateProgress(j, 80, <<"mux">>, "L142")
  /\ UNCHANGED <<fvars, tasks, self, loc, fut, yielded, calls, fs, muxed, ret>>

\* line 142: ffmpeg reads the files of overlay_frames; its exit status is
\* not looked at
RunFfmpeg(j) ==
  /\ pc[j] = "L142"
  /\ muxed' = [muxed EXCEPT ![j] = Some(fs.files)]
  /\ Goto(j, "L145")
  /\ UNCHANGED <<fvars, tasks, cb, self, loc, fut, yielded, calls, fs, ret>>

\* line 145
ReportCleanup(j) ==
  /\ pc[j] = "L145"
  /\ UpdateProgress(j, 95, <<"cleanup">>, "L146")
  /\ UNCHANGED <<fvars, tasks, self, loc, fut, yielded, calls, fs, muxed, ret>>

\* line 146: shutil.rmtree(overlay_dir)
RemoveOverlayDirKeepFiles(j) ==
  /\ pc[j] = "L146"
  /\ Goto(j, "L148")
  /\ UNCHANGED <<fvars, tasks, cb, self, loc, fut, yielded, calls, fs, muxed, ret>>
RemoveOverlayDir(j) ==
  /\ pc[j] = "L146"
  /\ IF fs.dir
     THEN /\ fs' = [dir |-> FALSE, files |-> NoFiles]
          /\ Goto(j, "L148")
          /\ UNCHANGED loc
     ELSE /\ Raise(j, "FileNotFoundError")
          /\ UNCHANGED fs
  /\ UNCHANGED <<fvars, tasks, cb, self, fut, yielded, calls, muxed, ret>>

\* line 148
ReportDone(j) ==
  /\ pc[j] = "L148"
  /\ UpdateProgress(j, 100, <<"done">>, "L149")
  /\ UNCHANGED <<fvars, tasks, self, loc, fut, yielded, calls, fs, muxed, ret>>

\* line 149
ReturnOutput(j) ==
  /\ pc[j] = "L149"
  /\ ret' = [ret EXCEPT ![j] = Some("output_file")]
  /\ Goto(j, "L91")
  /\ UNCHANGED <<fvars, tasks, cb, self, loc, fut, yielded, calls, fs, muxed>>

\* lines 151-153: report -1, then raise again, to line 93 of app.py
ReportError(j) ==
  /\ pc[j] = "L152"
  /\ UpdateProgress(j, -1, <<"error", loc[j].exc>>, "L93")
  /\ UNCHANGED <<fvars, tasks, self, loc, fut, yielded, calls, fs, muxed, ret>>

(***************************************************************************)
(* One job on the server.                                                  *)
(***************************************************************************)
JobStep(j) ==
  \/ process_video(j)
  \/ Construct(j)
  \/ CallbackProgress(j)
  \/ CallbackMessage(j)
  \/ CallbackStatus(j)
  \/ StoreOutput(j)
  \/ ExceptStatus(j)
  \/ ExceptMessage(j)
  \/ ReportParse(j)
  \/ LoadRecords(j)
  \/ ReportVideoInfo(j)
  \/ GetVideoInfo(j)
  \/ ReportOverlay(j)
  \/ MakeOverlayDir(j)
  \/ SubmitFrames(j)
  \/ \E n \in 0..MaxFrames : StartFrame(j, n)
  \/ \E n \in 0..MaxFrames : generate_frame(j, n)
  \/ NextCompleted(j)
  \/ ReportMux(j)
  \/ RunFfmpeg(j)
  \/ ReportCleanup(j)
  \/ RemoveOverlayDir(j)
  \/ ReportDone(j)
  \/ ReturnOutput(j)
  \/ ReportError(j)

NoProcessor ==
  /\ records = <<>>
  /\ gps_coords = <<>>
  /\ bbox = NoBox
  /\ result = [op |-> "none", arg |-> <<>>, val |-> <<>>]

Init == ServerInit /\ NoProcessor
Next == \E j \in OneJob : JobStep(j)
Spec == Init /\ [][Next]_vars

(***************************************************************************)
(* The methods of one VideoProcessor, tried on the record sequences of     *)
(* the inputs: _get_data_at_offset on the records with speeds,             *)
(* _extract_gps_data and _gps_to_pixel on the records with positions.      *)
(***************************************************************************)
NoResult == [op |-> "none", arg |-> <<>>, val |-> <<>>]

LookupInit ==
  /\ records \in SpeedRecordSeqs
  /\ gps_coords = <<>>
  /\ bbox = NoBox
  /\ result = NoResult
  /\ ServerInit
  /\ ~fs.dir

\* _get_data_at_offset(h / 2)
GetDataAtOffset(h) ==
  /\ result' = [op |-> "lookup", arg |-> <<h, 2>>,
                val |-> get_data_at_offset(records, h, 2)]
  /\ UNCHANGED <<records, gps_coords, bbox, pvars>>

LookupNext == \E h \in 0..MaxOffsetHalves : GetDataAtOffset(h)

SpecLookup == LookupInit /\ [][LookupNext]_vars

GpsInit ==
  /\ records \in GpsRecordSeqs
  /\ gps_coords = <<>>
  /\ bbox = NoBox
  /\ result = NoResult
  /\ ServerInit
  /\ ~fs.dir

\* line 63: process() runs _extract_gps_data once, on the loaded records
ExtractGpsData ==
  /\ result.op = "none"
  /\ LET g == extract_gps_data(records, bbox)
     IN /\ gps_coords' = g[1]
        /\ bbox' = g[2]
  /\ result' = [op |-> "extract", arg |-> <<>>, val |-> <<>>]
  /\ UNCHANGED <<records, pvars>>

\* _gps_to_pixel(lat, lon, map_size); its callers return early when
\* self.gps_coords is empty (lines 252, 333, 434)
GpsToPixel(lat, lon, map_size) ==
  /\ result.op # "none"
  /\ gps_coords # <<>>
  /\ result' = [op |-> "pixel", arg |-> <<lat, lon, map_size>>,
                val |-> gps_to_pixel(bbox, lat, lon, map_size)]
  /\ UNCHANGED <<records, gps_coords, bbox, pvars>>

Fixes == {gps_coords[i] : i \in {k \in 1..Len(gps_coords) : gps_coords[k] # None}}

GpsNext ==
  \/ ExtractGpsData
  \/ \E c \in Fixes, d \in Fixes, map_size \in MapSizes :
       GpsToPixel(c[1], d[2], map_size)

SpecGps == GpsInit /\ [][GpsNext]_vars

(***************************************************************************)
(* The frame loop of a long video (lines 92-101), entered after the        *)
(* reports 0, 5 and 10.  The body of the loop does not look at the future  *)
(* it is handed, so the futures are kept as their number only.             *)
(***************************************************************************)
LongVideoInit ==
  /\ NoProcessor
  /\ tasks = (1 :> [status |-> "processing", progress |-> 10,
                    message |-> <<"overlay">>, output_file |-> None])
  /\ pc = [j \in AllJobs |-> IF j = 1 THEN "L92" ELSE "idle"]
  /\ cb = [j \in AllJobs |-> NoCall]
  /\ self = [j \in AllJobs |-> NoSelf]
  /\ \E total_frames \in MinLongFrames..MaxLongFrames, cpus \in CpuCounts :
       loc = [j \in AllJobs |->
                IF j = 1
                THEN [NoLocals EXCEPT !.total_frames = total_frames,
                                      !.max_workers = Min(cpus, MaxWorkers)]
                ELSE NoLocals]
  /\ fut = [j \in AllJobs |-> NoFiles]
  /\ yielded = [j \in AllJobs |-> {}]
  /\ calls = [j \in AllJobs |-> IF j = 1 THEN <<0, 5, 10>> ELSE <<>>]
  /\ fs = [dir |-> TRUE, files |-> NoFiles]
  /\ muxed = [j \in AllJobs |-> None]
  /\ ret = [j \in AllJobs |-> None]

\* as_completed hands over one more of the total_frames futures
LongNextCompleted(j) ==
  /\ pc[j] = "L92"
  /\ loc[j].completed_frames < loc[j].total_frames
  /\ CountCompleted(j)
  /\ UNCHANGED <<fvars, tasks, self, fut, yielded, calls, fs, muxed, ret>>

LongVideoNext ==
  \E j \in OneJob :
    \/ LongNextCompleted(j)
    \/ CallbackProgress(j)
    \/ CallbackMessage(j)
    \/ CallbackStatus(j)

SpecLongVideo == LongVideoInit /\ [][LongVideoNext]_vars

(***************************************************************************)
(* Two jobs in one server process.  Both requests were accepted, and both  *)
(* threads have loaded the five samples of the scenario and the video      *)
(* information and have reported 0, 5 and 10: each is about to run line    *)
(* 73.  Job j was asked for the offset j - 1 seconds.  The threads run     *)
(* from there in any interleaving; overlay_frames is a path relative to    *)
(* the working directory of the process, so it is one directory for both.  *)
(***************************************************************************)
TwoJobsInit ==
  /\ NoProcessor
  /\ tasks = [j \in AllJobs |->
                [status |-> "processing", progress |-> 10,
                 message |-> <<"overlay">>, output_file |-> None]]
  /\ pc = [j \in AllJobs |-> "L73"]
  /\ cb = [j \in AllJobs |->
             [percent |-> 10, message |-> <<"overlay">>, ret |-> "L73"]]
  /\ self = [j \in AllJobs |->
               [offset_seconds |-> j - 1, records |-> Scenario,
                gps_coords |-> extract_gps_data(Scenario, NoBox)[1],
                box |-> extract_gps_data(Scenario, NoBox)[2]]]
  /\ loc \in [AllJobs -> {[NoLocals EXCEPT !.total_frames = t] :
                             t \in 1..MaxSharedFrames}]
  /\ fut = [j \in AllJobs |-> NoFiles]
  /\ yielded = [j \in AllJobs |-> {}]
  /\ calls = [j \in AllJobs |-> <<0, 5, 10>>]
  /\ fs \in {[dir |-> d, files |-> NoFiles] : d \in BOOLEAN}
  /\ muxed = [j \in AllJobs |-> None]
  /\ ret = [j \in AllJobs |-> None]

\* the steps of a job from line 73 on
FrameJobStep(j) ==
  \/ MakeOverlayDir(j)
  \/ SubmitFrames(j)
  \/ \E n \in 0..MaxFrames : StartFrame(j, n)
  \/ \E n \in 0..MaxFrames : generate_frame(j, n)
  \/ NextCompleted(j)
  \/ ReportMux(j)
  \/ RunFfmpeg(j)
  \/ ReportCleanup(j)
  \/ RemoveOverlayDir(j)
  \/ ReportDone(j)
  \/ ReturnOutput(j)
  \/ ReportError(j)
  \/ CallbackProgress(j)
  \/ CallbackMessage(j)
  \/ CallbackStatus(j)
  \/ StoreOutput(j)
  \/ ExceptStatus(j)
  \/ ExceptMessage(j)

TwoJobsNext == \E j \in AllJobs : FrameJobStep(j)

SpecTwoJobs == TwoJobsInit /\ [][TwoJobsNext]_vars

(***************************************************************************)
(* The server with its status endpoint.  Flask serves GET /api/status in   *)
(* a thread of its own, so a query may run between any two steps of the    *)
(* background thread of a job; `result` holds the last response.           *)
(***************************************************************************)
NotFound == [error |-> "not found"]

\* get_status, lines 103-116
get_status(j) ==
  /\ result' = [op |-> "status", arg |-> <<j>>,
                val |-> IF j \notin DOMAIN tasks THEN NotFound ELSE tasks[j]]
  /\ UNCHANGED <<records, gps_coords, bbox, pvars>>

StatusNext ==
  \E j \in OneJob :
    \/ JobStep(j)
    \/ get_status(j)

SpecStatus == Init /\ [][StatusNext]_vars

(***************************************************************************)
(* Properties.                                                             *)
(***************************************************************************)
Reported(j, percent) == \E i \in 1..Len(calls[j]) : calls[j][i] = percent
SomeTaskRaised(j) == FramesIn(j, "raised") # {}

\* C1: if a frame task raised during process(), the job ends in the error
\* state: 100 is never reported, process() returns no output file, and once
\* the thread has finished -1 was reported and the status is error.
C1_TaskFailureIsFatal ==
  \A j \in DOMAIN tasks :
    SomeTaskRaised(j) =>
      /\ ~Reported(j, 100)
      /\ ret[j] = None
      /\ pc[j] = "finished" => (Reported(j, -1) /\ tasks[j].status = "error")

\* C2: the percents handed to the callback never decrease, except for at
\* most one -1, which is the last call of the job.
C2_PercentMonotone ==
  \A j \in AllJobs :
    \A i, k \in 1..Len(calls[j]) :
      i < k => /\ calls[j][i] # -1
               /\ calls[j][k] # -1 => calls[j][i] <= calls[j][k]

\* a job that reported progress, failed, and reported -1 last
C2_Witness ==
  \E j \in AllJobs :
    /\ Len(calls[j]) >= 3
    /\ calls[j][Len(calls[j])] = -1
    /\ pc[j] = "finished"

\* C3: a task is created pending, and its status only moves pending ->
\* processing -> completed or error (a failure before the first report
\* takes it from pending to error); completed and error are never left.
StatusMoves ==
  {<<"pending", "pending">>, <<"pending", "processing">>, <<"pending", "error">>,
   <<"processing", "processing">>, <<"processing", "completed">>,
   <<"processing", "error">>,
   <<"completed", "completed">>, <<"error", "error">>}
C3_StatusOrder ==
  [][\A j \in DOMAIN tasks' :
       IF j \in DOMAIN tasks
       THEN <<tasks[j].status, tasks'[j].status>> \in StatusMoves
       ELSE tasks'[j].status = "pending"]_vars

\* a job that was processing and ended in error, in its last state
C3_Witness ==
  \E j \in DOMAIN tasks :
    /\ tasks[j].status = "error"
    /\ Reported(j, 5)
    /\ pc[j] = "finished"

\* C5: when the frame loop has ended, whatever the pool size and the order
\* of the tasks, overlay_frames holds exactly one file per frame index
\* 0 .. total_frames - 1, and the file of n is the overlay of the data at
\* offset_seconds + n / fps.
C5_FramesByIndex ==
  \A j \in DOMAIN tasks :
    pc[j] = "L142" =>
      /\ DOMAIN fs.files = 0..(loc[j].total_frames - 1)
      /\ \A n \in DOMAIN fs.files :
           LET data == FrameData(self[j], loc[j].fps, n)
           IN /\ data.exc = "none"
              /\ fs.files[n] = [job |-> j, overlay |-> create_overlay(self[j], data)]

\* C6: the frame files are removed after ffmpeg has run and before 100 is
\* reported: once 100 was reported ffmpeg has run and no frame file of the
\* job is left, and until ffmpeg has run every frame file written is there.
C6_CleanupAfterMux ==
  \A j \in DOMAIN tasks :
    /\ Reported(j, 100) =>
         /\ muxed[j] # None
         /\ \A n \in DOMAIN fs.files : fs.files[n].job # j
    /\ muxed[j] = None =>
         \A n \in FramesIn(j, "done") :
           n \in DOMAIN fs.files /\ fs.files[n].job = j

\* 100 was reported for a job whose frames ffmpeg has read
C6_Witness ==
  \E j \in DOMAIN tasks :
    /\ Reported(j, 100)
    /\ muxed[j] # None
    /\ DOMAIN Val(muxed[j]) = 0..(MaxFrames - 1)
    /\ fs.files = NoFiles

\* C4: _get_data_at_offset never fails, current_idx is floor(offset_seconds)
\* clamped into [0, length - 1], and from offset length - 1 on the data are
\* those of the last sample.
C4_LookupClamps ==
  result.op = "lookup" =>
    LET num == result.arg[1]
        den == result.arg[2]
        last == Len(records) - 1
    IN /\ result.val.exc = "none"
       /\ result.val.current_idx = Max(0, Min(num \div den, last))
       /\ num >= last * den => result.val = DataOf(records[last + 1], last)

\* C10: the pace is "--:--" exactly when the speed of the sample is <= 0 or
\* absent; a speed of 1000 / (m * 60 + s) gives "m:ss"; the samples with
\* speed 0, 2, 4, 0, 5 give "--:--", "8:20", "4:10", "--:--", "3:20".
ScenarioPaces ==
  <<NoPace, <<"8", ":", "2", "0">>, <<"4", ":", "1", "0">>, NoPace,
    <<"3", ":", "2", "0">>>>
C10_PaceRoundTrip ==
  (result.op = "lookup" /\ result.val.exc = "none") =>
    LET idx == result.val.current_idx
        speed == SpeedOf(records[idx + 1])
        pace == result.val.pace
    IN /\ pace = NoPace <=> speed.sgn <= 0
       /\ records = Scenario => pace = ScenarioPaces[idx + 1]
       /\ \A T \in MinPaceSeconds..MaxPaceSeconds :
            speed = SpeedOfPace[T] =>
              pace = Digits(T \div 60) \o <<":">> \o Format02d(T % 60)

\* the record carries both raw coordinates, and neither is zero
HasFix(record) ==
  /\ ~IsNone(record.position_lat) /\ Val(record.position_lat) # 0
  /\ ~IsNone(record.position_long) /\ Val(record.position_long) # 0
Degrees(record) ==
  <<Val(record.position_lat) * 180, Val(record.position_long) * 180>>
Extracted == result.op # "none"

\* C7 (as stated): after _extract_gps_data the trail has the length of the
\* record sequence and slot i describes record i, whatever the records.
C7_TrailAligned ==
  Extracted =>
    /\ Len(gps_coords) = Len(records)
    /\ \A i \in 1..Len(records) :
         gps_coords[i] = None \/ gps_coords[i] = Degrees(records[i])

\* C7 (amended): if some record has a fix (both raw coordinates present and
\* non-zero) the trail has the length of the record sequence and slot i is
\* the coordinate of record i, or None when record i has no fix; if no
\* record has a fix the trail is empty.
C7_TrailAlignedOrEmpty ==
  Extracted =>
    IF \E i \in 1..Len(records) : HasFix(records[i])
    THEN /\ Len(gps_coords) = Len(records)
         /\ \A i \in 1..Len(records) :
              gps_coords[i] = IF HasFix(records[i]) THEN Degrees(records[i])
                              ELSE None
    ELSE gps_coords = <<>>

\* a trail extracted from a record without a fix followed by one with a fix
C7_Witness ==
  /\ Extracted
  /\ Len(records) = 2
  /\ ~HasFix(records[1])
  /\ HasFix(records[2])
  /\ Len(gps_coords) = 2

\* C8: slot i is None exactly when record i lacks its raw latitude or its
\* raw longitude; otherwise it is (lat * 180 / 2^31, lon * 180 / 2^31), so
\* that a raw 0 decodes to 0 degrees.
C8_SlotDecoding ==
  Extracted =>
    \A i \in 1..Len(gps_coords) :
      gps_coords[i] =
        IF IsNone(records[i].position_lat) \/ IsNone(records[i].position_long)
        THEN None
        ELSE Degrees(records[i])

Projected == result.op = "pixel"
LatRange == bbox.lat_max - bbox.lat_min
LonRange == bbox.lon_max - bbox.lon_min

\* C9 (as stated): with coord_range > 0, (lat_max, lon_min) goes to (10, 10)
\* and (lat_min, lon_max) to (map_size - 10, map_size - 10); with
\* coord_range = 0 every coordinate goes to the centre.
C9_Corners ==
  Projected =>
    LET lat == result.arg[1]
        lon == result.arg[2]
        map_size == result.arg[3]
    IN /\ bbox.coord_range = 0 => result.val = <<map_size \div 2, map_size \div 2>>
       /\ (bbox.coord_range > 0 /\ lat = bbox.lat_max /\ lon = bbox.lon_min) =>
            result.val = <<10, 10>>
       /\ (bbox.coord_range > 0 /\ lat = bbox.lat_min /\ lon = bbox.lon_max) =>
            result.val = <<map_size - 10, map_size - 10>>

\* C9 (amended): with coord_range > 0, lon_min goes to x = 10 and lat_max
\* to y = 10; lon_max goes to x = map_size - 10 when the longitude range is
\* coord_range, and lat_min to y = map_size - 10 when the latitude range is
\* coord_range; on the axis with the smaller range the far corner stays
\* between 10 and map_size - 10 (at 10 when that range is 0).  With
\* coord_range = 0 every coordinate goes to the centre.
C9_CornersKeepAspect ==
  Projected =>
    LET lat == result.arg[1]
        lon == result.arg[2]
        map_size == result.arg[3]
        x == result.val[1]
        y == result.val[2]
    IN IF bbox.coord_range = 0
       THEN x = map_size \div 2 /\ y = map_size \div 2
       ELSE /\ lon = bbox.lon_min => x = 10
            /\ lat = bbox.lat_max => y = 10
            /\ lon = bbox.lon_max =>
                 /\ LonRange = bbox.coord_range => x = map_size - 10
                 /\ LonRange = 0 => x = 10
                 /\ Min(10, map_size - 10) <= x /\ x <= Max(10, map_size - 10)
            /\ lat = bbox.lat_min =>
                 /\ LatRange = bbox.coord_range => y = map_size - 10
                 /\ LatRange = 0 => y = 10
                 /\ Min(10, map_size - 10) <= y /\ y <= Max(10, map_size - 10)

\* the far corner (lat_min, lon_max) of a box that is higher than wide
C9_Witness ==
  /\ Projected
  /\ bbox.coord_range > 0
  /\ LonRange > 0
  /\ LonRange < LatRange
  /\ result.arg[1] = bbox.lat_min
  /\ result.arg[2] = bbox.lon_max
  /\ result.val[2] = result.arg[3] - 10
  /\ result.val[1] < result.arg[3] - 10

\* C11: during frame generation the count of completed frames goes up by
\* exactly one per finished task and ends at total_frames; a report is made
\* exactly when the count is a multiple of 10 or total_frames, its percent
\* is 10 + floor(70 * completed / total_frames), within 10 .. 80, and the
\* report of the last completion is 80.
C11_FrameReports ==
  /\ [](\A j \in DOMAIN tasks :
          pc[j] = "L142" => loc[j].completed_frames = loc[j].total_frames)
  /\ [][\A j \in OneJob :
          loc'[j].completed_frames # loc[j].completed_frames =>
            LET c == loc'[j].completed_frames
                t == loc'[j].total_frames
            IN /\ c = loc[j].completed_frames + 1
               /\ c <= t
               /\ IF c % 10 = 0 \/ c = t
                  THEN /\ pc'[j] = "cb_progress"
                       /\ cb'[j].percent = 10 + ((70 * c) \div t)
                       /\ cb'[j].percent >= 10 /\ cb'[j].percent <= 80
                       /\ c = t => cb'[j].percent = 80
                  ELSE cb' = cb /\ pc' = pc]_vars

\* the frame files of job j that ffmpeg has not read yet
Unconsumed(j) ==
  {n \in DOMAIN fs.files : fs.files[n].job = j /\ muxed[j] = None}

\* C12: with two jobs running at once, no job overwrites or deletes a
\* frame file of the other job before the ffmpeg of that job has read it,
\* and the ffmpeg of each job reads exactly the frames 0 ..
\* total_frames - 1 that the job itself has written.
C12_JobsKeepTheirFrames ==
  /\ [](\A j \in AllJobs :
          muxed[j] # None =>
            /\ DOMAIN Val(muxed[j]) = 0..(loc[j].total_frames - 1)
            /\ \A n \in DOMAIN Val(muxed[j]) :
                 Val(muxed[j])[n] =
                   [job |-> j,
                    overlay |-> create_overlay(self[j], FrameData(self[j], loc[j].fps, n))])
  /\ [][\A j \in AllJobs :
          \A n \in Unconsumed(j) :
            \/ n \in DOMAIN fs'.files /\ fs'.files[n] = fs.files[n]
            \/ pc'[j] # pc[j]
            \/ fut'[j] # fut[j]]_vars

\* C13: a status query never sees a job that is completed without its
\* output file, nor a job in error with a progress of 100.
C13_CompletedHasOutput ==
  (result.op = "status" /\ result.val # NotFound) =>
    /\ result.val.status = "completed" => result.val.output_file # None
    /\ ~(result.val.status = "error" /\ result.val.progress = 100)

=============================================================================
